---- MODULE Spec2Model ----
(***************************************************************************)
(* Model of decide/authentication: the token API (login, getuser, logout,  *)
(* register), the session views (Custom_loginView, registro,               *)
(* registroEmail, comprobarqr, dobleautenticacion) and the failed-login    *)
(* counter of views.py. Each client runs one request at a time; requests   *)
(* of different clients interleave at the database statements and at the   *)
(* accesses to the module global of the handlers.                          *)
(***************************************************************************)
EXTENDS Integers, Sequences, FiniteSets, TLC

\* ---------------------------------------------------------------- bounds
MaxUsers == 4
MaxKeys == 3
MaxAttempts == 5

\* settings.AUTH_MAX_FAILED_LOGIN_ATTEMPTS, imported by views.py
AUTH_MAX_FAILED_LOGIN_ATTEMPTS == 3

\* ---------------------------------------------------------------- inputs
Clients == {"c1", "c2"}
LoginNames == {"voter1", "admin", "ghost"}
LoginPasswords == {"123", "admin"}
\* (username, password) pairs posted to the login views: right and wrong
\* passwords of the fixture's users and an unknown user; for the token API
\* also the user registered through it, for the form login the two
\* self-registered ones.
Credentials == {<<"voter1", "123">>, <<"voter1", "admin">>, <<"admin", "admin">>,
                <<"admin", "123">>, <<"ghost", "123">>}
ApiCredentials == Credentials \cup {<<"user1", "pwd1">>}
FormCredentials == Credentials \cup {<<"new@decide.es", "decidepass123">>,
                                     <<"user9", "decidepass123">>}
RegisterPayloads == {<<"", "pwd1">>, <<"user2", "">>, <<"admin", "admin">>,
                     <<"user1", "pwd1">>}
\* (email, password1, password2) posted to registroEmail, as in
\* RegistroEmailTest: a good form, a bad email, an empty confirmation, an
\* empty password, differing passwords and a weak password.
RegistroForms == {<<"new@decide.es", "decidepass123", "decidepass123">>,
                  <<"BadEmail", "decidepass123", "decidepass123">>,
                  <<"new@decide.es", "decidepass123", "">>,
                  <<"new@decide.es", "", "decidepass123">>,
                  <<"new@decide.es", "weak", "decidepass123">>,
                  <<"new@decide.es", "weak", "weak">>}
\* (username, password1, password2) posted to registro: a good form, a
\* username of the fixture, an empty confirmation.
RegistroUserForms == {<<"user9", "decidepass123", "decidepass123">>,
                      <<"voter1", "decidepass123", "decidepass123">>,
                      <<"user9", "decidepass123", "">>}
Secrets == {5, 6}
\* the codes of the two secrets: each is the wrong code for the other secret
Codes == {5, 8}
TokenArgs == 0 .. MaxKeys
\* voter1, admin and the last id of the table (a user signed up, or nobody)
UserIdArgs == {1, 2, MaxUsers}
Methods == {"GET", "POST"}

VARIABLES users, tokens, nextKey, user_failed_login_attempts, session,
          inflight, resp, streak, attempts

vars == <<users, tokens, nextKey, user_failed_login_attempts, session,
          inflight, resp, streak, attempts>>

\* ---------------------------------------------------------------- helpers
\* set_password stores a hash of the raw password, check_password compares
\* against it; the raw password is never stored.
make_password(raw) == [alg |-> "pbkdf2_sha256", of |-> raw]

check_password(raw, hashed) == hashed = make_password(raw)

NoSecret == 0

NewUser(username, raw, email, super) ==
    [username |-> username, password |-> make_password(raw), email |-> email,
     is_superuser |-> super, is_blocked |-> FALSE, secret |-> NoSecret]

UserIds == DOMAIN users

\* CustomUser.objects.get(username=...): the ids holding that username
\* (username is unique, so at most one).
ByUsername(username) == {i \in UserIds : users[i].username = username}

ByEmail(email) == {i \in UserIds : users[i].email = email}

\* Token.objects.get(key=...)
TokenByKey(key) == {t \in tokens : t.key = key}

TokenByUser(uid) == {t \in tokens : t.user = uid}

HasToken(key) == TokenByKey(key) # {}

\* A request in flight: the view and statement it has reached (op), what it
\* was posted (a, b, n, k) and the model instance it holds in memory (row).
NoRow == NewUser("", "", "", FALSE)

Request(op, a, b, n) ==
    [op |-> op, a |-> a, b |-> b, n |-> n, k |-> 0, row |-> NoRow]

Idle == Request("idle", "", "", 0)

\* resp is the response of the request that completed last: the client it
\* went to, the view, the outcome, and the payload (user id, username, token
\* key) with the token or user id the request named (arg).
NoResp == [client |-> "", op |-> "none", outcome |-> "none", user |-> 0,
           username |-> "", key |-> 0, arg |-> 0]

Response(c, op, outcome, user, username, key, arg) ==
    [client |-> c, op |-> op, outcome |-> outcome, user |-> user,
     username |-> username, key |-> key, arg |-> arg]

\* pyotp.TOTP(secret).now() within the time step of the run: a keyed digest
\* of the secret reduced to the code space.
TotpNow(secret) == (secret * 7 + 3) % 10

TotpVerify(secret, code) == code = TotpNow(secret)

\* ---------------------------------------------------------------- Init
\* The users of AuthTestCase.setUp: voter1/123, the superuser admin/admin and
\* rafaeldavidgg/decidepass123 with an email address.
FixtureUsers ==
    <<NewUser("voter1", "123", "", FALSE),
      NewUser("admin", "admin", "", TRUE),
      NewUser("rafaeldavidgg", "decidepass123", "rafaeldgarciagalocha@gmail.com", FALSE)>>

Init ==
    /\ users = FixtureUsers
    /\ tokens = {}
    /\ nextKey = 1
    /\ user_failed_login_attempts = 0
    /\ session = [c \in Clients |-> 0]
    /\ inflight = [c \in Clients |-> Idle]
    /\ resp = NoResp
    /\ streak = [u \in LoginNames |-> 0]
    /\ attempts = 0

\* ---------------------------------------------------------------- bounds on the tables
\* Requests that passed validation and have not yet written their user.
Creating ==
    {c \in Clients : inflight[c].op \in {"register", "registro", "registroEmail"}}

\* Requests that may still insert a token: logins that found no token of
\* their user, registrations that have inserted their user.
Issuing ==
    {c \in Clients : inflight[c].op \in {"login", "registerToken", "registerCreate"}}

\* The usernames that would be new rows once the requests in flight and a
\* request for `username` have inserted.
NewNames(username) ==
    {n \in {inflight[c].a : c \in Creating} \cup {username} : ByUsername(n) = {}}

\* Room in the user table, and in the key space, for the request (bounds of
\* the model).
HasUserRoom(username) == Len(users) + Cardinality(NewNames(username)) <= MaxUsers

HasKeyRoom(username) ==
    nextKey + Cardinality(NewNames(username)) + Cardinality(Issuing) - 1 <= MaxKeys

HasRoom(username) == HasUserRoom(username) /\ HasKeyRoom(username)

\* ---------------------------------------------------------------- token API
\* authenticate(username, password): the user id, or 0.
Authenticate(username, raw) ==
    LET found == {i \in ByUsername(username) :
                     check_password(raw, users[i].password)}
    IN IF found = {} THEN 0 ELSE CHOOSE i \in found : TRUE

\* Token.objects.get_or_create(user=user) is up to three statements: the get,
\* the create when the get found nothing, and, when the unique constraint on
\* the token's user rejects the create because another request has created
\* the token meanwhile, a second get, which raises the IntegrityError of the
\* create again when the token is gone by then.

\* get(user=user): the key of the user's token, or 0 (DoesNotExist).
TokenGet(uid) ==
    IF TokenByUser(uid) # {} THEN (CHOOSE t \in TokenByUser(uid) : TRUE).key
    ELSE 0

\* Variant: no unique constraint on the user of a token, every create inserts.
TokensWith_NoUnique(uid) == tokens \cup {[key |-> nextKey, user |-> uid]}

\* create(user=user): the insert with a fresh random key, rejected when the
\* user has a token.
TokensWith(uid) ==
    IF TokenByUser(uid) # {} THEN tokens
    ELSE tokens \cup {[key |-> nextKey, user |-> uid]}

NextKeyWith(uid) == IF TokenByUser(uid) # {} THEN nextKey ELSE nextKey + 1

\* Room in the key space for one more login that creates a token (bound of
\* the model).
CanIssue(uid) ==
    nextKey + Cardinality(NewNames(users[uid].username)) + Cardinality(Issuing) <= MaxKeys

\* POST /authentication/login/ {username, password}: the checks, and the
\* get of get_or_create. A token found is answered at once; otherwise the
\* request goes on to create one.
Login(c, username, raw) ==
    /\ inflight[c] = Idle
    /\ LET uid == Authenticate(username, raw) IN
       IF uid = 0 THEN
            /\ resp' = Response(c, "login", "InvalidCredentials", 0, username, 0, 0)
            /\ UNCHANGED inflight
       ELSE IF users[uid].is_blocked THEN
            /\ resp' = Response(c, "login", "AccountLocked", 0, username, 0, 0)
            /\ UNCHANGED inflight
       ELSE IF users[uid].secret # NoSecret THEN
            /\ resp' = Response(c, "login", "PendingTwoFactor", uid, username, 0, 0)
            /\ UNCHANGED inflight
       ELSE IF TokenGet(uid) # 0 THEN
            /\ resp' = Response(c, "login", "Ok", uid, username, TokenGet(uid), 0)
            /\ UNCHANGED inflight
       ELSE
            /\ CanIssue(uid)
            /\ inflight' = [inflight EXCEPT ![c] =
                   Request("login", username, "", uid)]
            /\ UNCHANGED resp
    /\ UNCHANGED <<users, tokens, nextKey, user_failed_login_attempts, session,
                   streak, attempts>>

\* The create of get_or_create: the insert and the answer with the new
\* token, or the IntegrityError that sends the request to the second get.
LoginCreate(c) ==
    /\ inflight[c].op = "login"
    /\ LET uid == inflight[c].n IN
            /\ tokens' = TokensWith(uid)
            /\ nextKey' = NextKeyWith(uid)
            /\ IF TokenByUser(uid) # {} THEN
                    /\ inflight' = [inflight EXCEPT ![c].op = "loginRetry"]
                    /\ UNCHANGED resp
               ELSE
                    /\ resp' = Response(c, "login", "Ok", uid, inflight[c].a, nextKey, 0)
                    /\ inflight' = [inflight EXCEPT ![c] = Idle]
    /\ UNCHANGED <<users, user_failed_login_attempts, session, streak, attempts>>

\* The second get of get_or_create: the token the other request created, or,
\* when a logout has deleted it meanwhile, the IntegrityError, which the
\* login view does not catch.
LoginRetry(c) ==
    /\ inflight[c].op = "loginRetry"
    /\ LET uid == inflight[c].n IN
       IF TokenGet(uid) # 0 THEN
            resp' = Response(c, "login", "Ok", uid, inflight[c].a, TokenGet(uid), 0)
       ELSE
            resp' = Response(c, "login", "ServerError", 0, inflight[c].a, 0, 0)
    /\ inflight' = [inflight EXCEPT ![c] = Idle]
    /\ UNCHANGED <<users, tokens, nextKey, user_failed_login_attempts, session,
                   streak, attempts>>

\* GetUserView.post: get_object_or_404(Token, key=key), then the serialized
\* owner (id and username).
\* Variant: the token is looked up by its owner's id instead of its key.
GetUserOutcome_ByOwner(c, key) ==
    IF TokenByUser(key) = {}
    THEN Response(c, "getuser", "NotFound", 0, "", 0, key)
    ELSE LET tk == CHOOSE t \in TokenByUser(key) : TRUE
         IN Response(c, "getuser", "Ok", tk.user, users[tk.user].username, 0, key)

GetUserOutcome(c, key) ==
    IF TokenByKey(key) = {}
    THEN Response(c, "getuser", "NotFound", 0, "", 0, key)
    ELSE LET tk == CHOOSE t \in TokenByKey(key) : TRUE
         IN Response(c, "getuser", "Ok", tk.user, users[tk.user].username, 0, key)

GetUser(c, key) ==
    /\ inflight[c] = Idle
    /\ resp' = GetUserOutcome(c, key)
    /\ UNCHANGED <<users, tokens, nextKey, user_failed_login_attempts, session,
                   inflight, streak, attempts>>

\* LogoutView.post: delete the token when it exists, answer {} either way.
\* Variant: the token is fetched but never deleted.
LogoutTokens_Keep(key) == tokens

\* Variant: the delete is not filtered by key.
LogoutTokens_All(key) == IF HasToken(key) THEN {} ELSE tokens

LogoutTokens(key) == tokens \ TokenByKey(key)

Logout(c, key) ==
    /\ inflight[c] = Idle
    /\ tokens' = LogoutTokens(key)
    /\ resp' = Response(c, "logout", "Ok", 0, "", 0, key)
    /\ UNCHANGED <<users, nextKey, user_failed_login_attempts, session,
                   inflight, streak, attempts>>

\* ---------------------------------------------------------------- register
\* Variant: the payload is validated before the caller's privilege.
RegisterCheck_PayloadFirst(key, username, raw) ==
    IF TokenByKey(key) = {} THEN "NotFound"
    ELSE IF username = "" \/ raw = "" THEN "BadRequest"
    ELSE IF ~users[(CHOOSE t \in TokenByKey(key) : TRUE).user].is_superuser
         THEN "Unauthorized"
    ELSE "proceed"

RegisterCheck(key, username, raw) ==
    IF TokenByKey(key) = {} THEN "NotFound"
    ELSE IF ~users[(CHOOSE t \in TokenByKey(key) : TRUE).user].is_superuser
         THEN "Unauthorized"
    ELSE IF username = "" \/ raw = "" THEN "BadRequest"
    ELSE "proceed"

RegisterBegin(c, key, username, raw) ==
    /\ inflight[c] = Idle
    /\ LET verdict == RegisterCheck(key, username, raw) IN
       IF verdict = "proceed" THEN
            /\ HasRoom(username)
            /\ inflight' = [inflight EXCEPT ![c] =
                   Request("register", username, raw, key)]
            /\ UNCHANGED resp
       ELSE
            /\ resp' = Response(c, "register", verdict, 0, username, 0, key)
            /\ UNCHANGED inflight
    /\ UNCHANGED <<users, tokens, nextKey, user_failed_login_attempts, session,
                   streak, attempts>>

\* user.save() violates the unique constraint on username.
IntegrityError(username) == ByUsername(username) # {}

\* RegisterView.post, line 190-192: user.save() inserts the user and commits;
\* IntegrityError becomes 400. The request then goes on to the token.
RegisterSave(c) ==
    /\ inflight[c].op = "register"
    /\ LET username == inflight[c].a
           raw == inflight[c].b
       IN IF IntegrityError(username) THEN
               /\ resp' = Response(c, "register", "BadRequest", 0, username, 0, inflight[c].n)
               /\ inflight' = [inflight EXCEPT ![c] = Idle]
               /\ UNCHANGED users
          ELSE
               /\ users' = Append(users, NewUser(username, raw, "", FALSE))
               /\ inflight' = [inflight EXCEPT ![c].op = "registerToken"]
               /\ UNCHANGED resp
    /\ UNCHANGED <<tokens, nextKey, user_failed_login_attempts, session, streak,
                   attempts>>

\* The user the request has inserted (user.pk after save()).
RegisteredPk(c) == CHOOSE i \in ByUsername(inflight[c].a) : TRUE

\* RegisterView.post, line 193, the get of get_or_create: a token that a
\* login of the new user has created meanwhile is answered with 201 (line
\* 196); otherwise the request goes on to create one.
RegisterToken(c) ==
    /\ inflight[c].op = "registerToken"
    /\ LET pk == RegisteredPk(c) IN
       IF TokenGet(pk) # 0 THEN
            /\ resp' = Response(c, "register", "Created", pk, inflight[c].a,
                                TokenGet(pk), inflight[c].n)
            /\ inflight' = [inflight EXCEPT ![c] = Idle]
       ELSE
            /\ inflight' = [inflight EXCEPT ![c].op = "registerCreate"]
            /\ UNCHANGED resp
    /\ UNCHANGED <<users, tokens, nextKey, user_failed_login_attempts, session,
                   streak, attempts>>

\* Line 193, the create of get_or_create: the insert and the 201 answer with
\* user_pk and token, or the IntegrityError that sends the request to the
\* second get.
RegisterCreate(c) ==
    /\ inflight[c].op = "registerCreate"
    /\ LET pk == RegisteredPk(c) IN
            /\ tokens' = TokensWith(pk)
            /\ nextKey' = NextKeyWith(pk)
            /\ IF TokenByUser(pk) # {} THEN
                    /\ inflight' = [inflight EXCEPT ![c].op = "registerRetry"]
                    /\ UNCHANGED resp
               ELSE
                    /\ resp' = Response(c, "register", "Created", pk, inflight[c].a,
                                        nextKey, inflight[c].n)
                    /\ inflight' = [inflight EXCEPT ![c] = Idle]
    /\ UNCHANGED <<users, user_failed_login_attempts, session, streak, attempts>>

\* Line 193-196, the second get of get_or_create: the token the login
\* created is answered with 201; when a logout has deleted it meanwhile the
\* IntegrityError is raised again, and `except IntegrityError` (line 194)
\* answers 400 although the user has been inserted.
RegisterRetry(c) ==
    /\ inflight[c].op = "registerRetry"
    /\ LET pk == RegisteredPk(c) IN
       IF TokenGet(pk) # 0 THEN
            resp' = Response(c, "register", "Created", pk, inflight[c].a,
                             TokenGet(pk), inflight[c].n)
       ELSE
            resp' = Response(c, "register", "BadRequest", 0, inflight[c].a, 0,
                             inflight[c].n)
    /\ inflight' = [inflight EXCEPT ![c] = Idle]
    /\ UNCHANGED <<users, tokens, nextKey, user_failed_login_attempts, session,
                   streak, attempts>>

\* ---------------------------------------------------------------- login2
\* request.user is a user object or an AnonymousUser object, never a str, so
\* `request.user != 'AnonymousUser'` is true for every request.
DiffersFromAnonymousUserStr(sessionUser) == sessionUser \in 0 .. MaxUsers

\* CustomUser.block_account(usuario)
BlockAccount(uid) == [users EXCEPT ![uid].is_blocked = TRUE]

\* login2, first half of `user_failed_login_attempts += 1`: the load of the
\* module global.
Login2Load(c, username, raw) ==
    /\ inflight[c] = Idle
    /\ attempts < MaxAttempts
    /\ attempts' = attempts + 1
    /\ inflight' = [inflight EXCEPT ![c] =
           Request("login2", username, raw, user_failed_login_attempts)]
    /\ UNCHANGED <<users, tokens, nextKey, user_failed_login_attempts, session,
                   resp, streak>>

\* The consecutive failed logins of each account, counted from the posted
\* credentials (history of the run, not state of the program).
StreakAfter(username, raw) ==
    [streak EXCEPT ![username] =
        IF Authenticate(username, raw) # 0 THEN 0 ELSE @ + 1]

\* login2, second half of `user_failed_login_attempts += 1` (line 63): the
\* store of the loaded value plus one. The else branch is the reset of line
\* 73-75.
Login2Store(c) ==
    /\ inflight[c].op = "login2"
    /\ IF DiffersFromAnonymousUserStr(session[c]) THEN
            /\ user_failed_login_attempts' = inflight[c].n + 1
            /\ inflight' = [inflight EXCEPT ![c].op = "login2test"]
            /\ UNCHANGED <<resp, streak>>
       ELSE
            /\ user_failed_login_attempts' = 0
            /\ resp' = Response(c, "login2", "RedirectHome", session[c],
                                inflight[c].a, 0, 0)
            /\ streak' = StreakAfter(inflight[c].a, inflight[c].b)
            /\ inflight' = [inflight EXCEPT ![c] = Idle]
    /\ UNCHANGED <<users, tokens, nextKey, session, attempts>>

\* login2, line 64-65 and 70-71, after the print: the global is read again
\* for the threshold test; below the threshold the form is rendered.
Login2Test(c) ==
    /\ inflight[c].op = "login2test"
    /\ IF user_failed_login_attempts >= AUTH_MAX_FAILED_LOGIN_ATTEMPTS THEN
            /\ inflight' = [inflight EXCEPT ![c].op = "login2get"]
            /\ UNCHANGED <<resp, streak>>
       ELSE
            /\ resp' = Response(c, "login2", "RenderLogin", 0, inflight[c].a, 0, 0)
            /\ streak' = StreakAfter(inflight[c].a, inflight[c].b)
            /\ inflight' = [inflight EXCEPT ![c] = Idle]
    /\ UNCHANGED <<users, tokens, nextKey, user_failed_login_attempts, session,
                   attempts>>

\* login2, line 67: CustomUser.objects.get(username=...) loads the account;
\* CustomUser.DoesNotExist is not caught.
Login2Get(c) ==
    /\ inflight[c].op = "login2get"
    /\ LET username == inflight[c].a IN
       IF ByUsername(username) = {} THEN
            /\ resp' = Response(c, "login2", "ServerError", 0, username, 0, 0)
            /\ streak' = StreakAfter(username, inflight[c].b)
            /\ inflight' = [inflight EXCEPT ![c] = Idle]
       ELSE LET uid == CHOOSE i \in ByUsername(username) : TRUE IN
            /\ inflight' = [inflight EXCEPT ![c].op = "login2block",
                                            ![c].n = uid,
                                            ![c].row = users[uid]]
            /\ UNCHANGED <<resp, streak>>
    /\ UNCHANGED <<users, tokens, nextKey, user_failed_login_attempts, session,
                   attempts>>

\* login2, line 68-69: block_account on the account loaded, then the
\* redirect to registro.
Login2Block(c) ==
    /\ inflight[c].op = "login2block"
    /\ users' = BlockAccount(inflight[c].n)
    /\ resp' = Response(c, "login2", "RedirectRegistro", inflight[c].n,
                        inflight[c].a, 0, 0)
    /\ streak' = StreakAfter(inflight[c].a, inflight[c].b)
    /\ inflight' = [inflight EXCEPT ![c] = Idle]
    /\ UNCHANGED <<tokens, nextKey, user_failed_login_attempts, session, attempts>>

\* ---------------------------------------------------------------- session views
\* Custom_loginView.get_success_url, run right after login(request, user) on
\* the instance authenticate() has loaded: a user with a secret is logged out
\* again and sent to comprobarqr.
get_success_url(uid, user) ==
    IF user.secret # NoSecret
    THEN [session |-> 0, outcome |-> "RedirectComprobarqr"]
    ELSE [session |-> uid, outcome |-> "RedirectHome"]

\* POST to Custom_loginView, the authentication form: authenticate() loads
\* the user of the username and checks the password. The view has no test of
\* is_blocked.
FormLogin(c, username, raw) ==
    /\ inflight[c] = Idle
    /\ LET uid == Authenticate(username, raw) IN
       IF uid = 0 THEN
            /\ resp' = Response(c, "formlogin", "InvalidCredentials", 0, username, 0, 0)
            /\ UNCHANGED inflight
       ELSE
            /\ inflight' = [inflight EXCEPT ![c] =
                   [Request("formlogin", username, "", uid) EXCEPT
                       !.row = users[uid]]]
            /\ UNCHANGED resp
    /\ UNCHANGED <<users, tokens, nextKey, user_failed_login_attempts, session,
                   streak, attempts>>

\* LoginView.form_valid: login(request, user) and the redirect to
\* get_success_url(), which tests the secret of the instance loaded by
\* authenticate(), not the row as it is now. The session is stored when the
\* response is returned, so login() and the logout() of get_success_url
\* reach the session store together.
FormLoginSuccess(c) ==
    /\ inflight[c].op = "formlogin"
    /\ LET uid == inflight[c].n
           verdict == get_success_url(uid, inflight[c].row)
       IN  /\ session' = [session EXCEPT ![c] = verdict.session]
           /\ resp' = Response(c, "formlogin", verdict.outcome, uid,
                               inflight[c].a, 0, 0)
    /\ inflight' = [inflight EXCEPT ![c] = Idle]
    /\ UNCHANGED <<users, tokens, nextKey, user_failed_login_attempts, streak,
                   attempts>>

\* CustomUserCreationFormEmail.is_valid(): the reasons the form is rejected.
EmailSyntaxOk(email) == email \in {"new@decide.es"}

PasswordStrong(raw) == raw \in {"decidepass123"}

FormErrors(email, p1, p2) ==
    (IF EmailSyntaxOk(email) THEN {} ELSE {"email"})
    \cup (IF p1 # "" /\ p2 # "" /\ p1 = p2 THEN {} ELSE {"password2"})
    \cup (IF PasswordStrong(p1) THEN {} ELSE {"password1"})
    \cup (IF ByEmail(email) = {} /\ ByUsername(email) = {} THEN {} ELSE {"taken"})

\* Variant: the form is saved without asking is_valid().
FormAccepted_Unchecked(email, p1, p2) == TRUE

\* `if user_creation_form.is_valid():`
FormAccepted(email, p1, p2) == FormErrors(email, p1, p2) = {}

\* registroEmail, POST, up to is_valid().
RegistroEmailBegin(c, email, p1, p2) ==
    /\ inflight[c] = Idle
    /\ IF FormAccepted(email, p1, p2) THEN
            /\ HasUserRoom(email)
            /\ inflight' = [inflight EXCEPT ![c] =
                   Request("registroEmail", email, p1, 0)]
            /\ UNCHANGED resp
       ELSE
            /\ resp' = Response(c, "registroEmail", "FormError", 0, email, 0, 0)
            /\ UNCHANGED inflight
    /\ UNCHANGED <<users, tokens, nextKey, user_failed_login_attempts, session,
                   streak, attempts>>

\* registroEmail, line 115: form.save() inserts the user and commits. A
\* username taken since is_valid() raises IntegrityError, which the view
\* does not catch. The request then goes on to login().
RegistroEmailSave(c) ==
    /\ inflight[c].op = "registroEmail"
    /\ LET email == inflight[c].a IN
       IF IntegrityError(email) THEN
            /\ resp' = Response(c, "registroEmail", "ServerError", 0, email, 0, 0)
            /\ inflight' = [inflight EXCEPT ![c] = Idle]
            /\ UNCHANGED users
       ELSE
            /\ users' = Append(users, NewUser(email, inflight[c].b, email, FALSE))
            /\ inflight' = [inflight EXCEPT ![c].op = "registroEmailLogin",
                                            ![c].n = Len(users) + 1]
            /\ UNCHANGED resp
    /\ UNCHANGED <<tokens, nextKey, user_failed_login_attempts, session, streak,
                   attempts>>

\* registroEmail, line 117-118: login(request, user) writes the session for
\* the user inserted, whatever has become of its row since, and the view
\* redirects to home.
RegistroEmailLogin(c) ==
    /\ inflight[c].op = "registroEmailLogin"
    /\ session' = [session EXCEPT ![c] = inflight[c].n]
    /\ resp' = Response(c, "registroEmail", "RedirectHome", inflight[c].n,
                        inflight[c].a, 0, 0)
    /\ inflight' = [inflight EXCEPT ![c] = Idle]
    /\ UNCHANGED <<users, tokens, nextKey, user_failed_login_attempts, streak,
                   attempts>>

\* CustomUserCreationForm(data=request.POST).errors: the fields in error.
UserFormErrors(username, p1, p2) ==
    (IF username # "" /\ ByUsername(username) = {} THEN {} ELSE {"username"})
    \cup (IF p1 # "" /\ p2 # "" /\ p1 = p2 /\ PasswordStrong(p1) THEN {}
          ELSE {"password2"})

\* registro, POST, up to is_valid().
RegistroBegin(c, username, p1, p2) ==
    /\ inflight[c] = Idle
    /\ IF UserFormErrors(username, p1, p2) = {} THEN
            /\ HasUserRoom(username)
            /\ inflight' = [inflight EXCEPT ![c] =
                   Request("registro", username, p1, 0)]
            /\ UNCHANGED resp
       ELSE
            /\ resp' = Response(c, "registro", "FormError", 0, username, 0, 0)
            /\ UNCHANGED inflight
    /\ UNCHANGED <<users, tokens, nextKey, user_failed_login_attempts, session,
                   streak, attempts>>

\* registro, line 99: form.save() inserts the user and commits. A username
\* taken since is_valid() raises IntegrityError, which the view does not
\* catch. The request then goes on to login().
RegistroSave(c) ==
    /\ inflight[c].op = "registro"
    /\ LET username == inflight[c].a IN
       IF IntegrityError(username) THEN
            /\ resp' = Response(c, "registro", "ServerError", 0, username, 0, 0)
            /\ inflight' = [inflight EXCEPT ![c] = Idle]
            /\ UNCHANGED users
       ELSE
            /\ users' = Append(users, NewUser(username, inflight[c].b, "", FALSE))
            /\ inflight' = [inflight EXCEPT ![c].op = "registroLogin",
                                            ![c].n = Len(users) + 1]
            /\ UNCHANGED resp
    /\ UNCHANGED <<tokens, nextKey, user_failed_login_attempts, session, streak,
                   attempts>>

\* registro, line 101-102: login(request, user) writes the session for the
\* user inserted, whatever has become of its row since, and the view
\* redirects to home.
RegistroLogin(c) ==
    /\ inflight[c].op = "registroLogin"
    /\ session' = [session EXCEPT ![c] = inflight[c].n]
    /\ resp' = Response(c, "registro", "RedirectHome", inflight[c].n,
                        inflight[c].a, 0, 0)
    /\ inflight' = [inflight EXCEPT ![c] = Idle]
    /\ UNCHANGED <<users, tokens, nextKey, user_failed_login_attempts, streak,
                   attempts>>

\* comprobarqr(request, user_id), line 125-127: the method test,
\* CustomUser.objects.get(pk=user_id) loading the user, and the posted code.
Comprobarqr(c, method, user_id, code) ==
    /\ inflight[c] = Idle
    /\ IF method # "POST" THEN
            /\ resp' = Response(c, "comprobarqr", "Render2fa", 0, "", 0, user_id)
            /\ UNCHANGED inflight
       ELSE IF user_id \notin UserIds THEN
            \* CustomUser.DoesNotExist is not caught
            /\ resp' = Response(c, "comprobarqr", "ServerError", 0, "", 0, user_id)
            /\ UNCHANGED inflight
       ELSE
            /\ inflight' = [inflight EXCEPT ![c] =
                   [Request("comprobarqr", "", "", user_id) EXCEPT
                       !.k = code, !.row = users[user_id]]]
            /\ UNCHANGED resp
    /\ UNCHANGED <<users, tokens, nextKey, user_failed_login_attempts, session,
                   streak, attempts>>

\* comprobarqr, line 128-134: the code is verified against the secret of the
\* instance loaded at line 126, and login(request, user) logs that user in.
ComprobarqrVerify(c) ==
    /\ inflight[c].op = "comprobarqr"
    /\ LET user_id == inflight[c].n
           user == inflight[c].row
       IN IF user.secret = NoSecret THEN
               \* pyotp.TOTP(None).now() raises
               /\ resp' = Response(c, "comprobarqr", "ServerError", 0, "", 0, user_id)
               /\ UNCHANGED session
          ELSE IF TotpVerify(user.secret, inflight[c].k) THEN
               /\ session' = [session EXCEPT ![c] = user_id]
               /\ resp' = Response(c, "comprobarqr", "RenderHome", user_id,
                                   user.username, 0, user_id)
          ELSE
               /\ resp' = Response(c, "comprobarqr", "Render2fa", 0, "", 0, user_id)
               /\ UNCHANGED session
    /\ inflight' = [inflight EXCEPT ![c] = Idle]
    /\ UNCHANGED <<users, tokens, nextKey, user_failed_login_attempts, streak,
                   attempts>>

\* dobleautenticacion(request, user_id), behind @login_required, up to line
\* 144: the new secret, get_object_or_404 loading the whole row of user_id,
\* and the secret set on the instance in memory.
Dobleautenticacion(c, method, user_id, secreto) ==
    /\ inflight[c] = Idle
    /\ IF session[c] = 0 THEN
            /\ resp' = Response(c, "dobleautenticacion", "RedirectLogin", 0, "", 0, user_id)
            /\ UNCHANGED inflight
       ELSE IF method = "POST" THEN
            /\ resp' = Response(c, "dobleautenticacion", "RedirectHome", 0, "", 0, user_id)
            /\ UNCHANGED inflight
       ELSE IF user_id \notin UserIds THEN
            /\ resp' = Response(c, "dobleautenticacion", "NotFound", 0, "", 0, user_id)
            /\ UNCHANGED inflight
       ELSE
            /\ inflight' = [inflight EXCEPT ![c] =
                   [Request("dobleautenticacion", "", "", user_id) EXCEPT
                       !.row = [users[user_id] EXCEPT !.secret = secreto]]]
            /\ UNCHANGED resp
    /\ UNCHANGED <<users, tokens, nextKey, user_failed_login_attempts, session,
                   streak, attempts>>

\* dobleautenticacion, line 145-156: user.save() writes every column of the
\* instance loaded at line 143, so that what another request has written to
\* the row since is overwritten; then the QR page is rendered.
DobleautenticacionSave(c) ==
    /\ inflight[c].op = "dobleautenticacion"
    /\ users' = [users EXCEPT ![inflight[c].n] = inflight[c].row]
    /\ resp' = Response(c, "dobleautenticacion", "RenderFactorDoble",
                        session[c], users[session[c]].username, 0, inflight[c].n)
    /\ inflight' = [inflight EXCEPT ![c] = Idle]
    /\ UNCHANGED <<tokens, nextKey, user_failed_login_attempts, session, streak,
                   attempts>>

\* ---------------------------------------------------------------- specifications
\* The groups of views share the user table and nothing else that they
\* write in common: the token API writes the token table, login2 the failure
\* counter and is_blocked, the sign-up views the sessions and new users, the
\* 2FA views the sessions and the secrets. Each group is checked with the
\* states the others leave behind drawn in its initial state.

\* The token API: login, getuser, logout, register. voter1 may have enrolled
\* a secret through dobleautenticacion or been blocked by login2 before.
InitApi ==
    /\ \E sec \in {NoSecret} \cup Secrets, blk \in BOOLEAN :
          users = [FixtureUsers EXCEPT ![1].secret = sec, ![1].is_blocked = blk]
    /\ tokens = {}
    /\ nextKey = 1
    /\ user_failed_login_attempts = 0
    /\ session = [c \in Clients |-> 0]
    /\ inflight = [c \in Clients |-> Idle]
    /\ resp = NoResp
    /\ streak = [u \in LoginNames |-> 0]
    /\ attempts = 0

NextApi ==
    \E c \in Clients :
        \/ \E d \in ApiCredentials : Login(c, d[1], d[2])
        \/ LoginCreate(c)
        \/ LoginRetry(c)
        \/ \E k \in TokenArgs : GetUser(c, k)
        \/ \E k \in TokenArgs : Logout(c, k)
        \/ \E k \in TokenArgs, d \in RegisterPayloads :
               RegisterBegin(c, k, d[1], d[2])
        \/ RegisterSave(c)
        \/ RegisterToken(c)
        \/ RegisterCreate(c)
        \/ RegisterRetry(c)

SpecApi == InitApi /\ [][NextApi]_vars

\* The failed-login counter of login2.
NextLockout ==
    \E c \in Clients :
        \/ \E u \in LoginNames, p \in LoginPasswords : Login2Load(c, u, p)
        \/ Login2Store(c)
        \/ Login2Test(c)
        \/ Login2Get(c)
        \/ Login2Block(c)

SpecLockout == Init /\ [][NextLockout]_vars

\* The sign-up views, with the form login that shares the sessions with them.
NextSignup ==
    \E c \in Clients :
        \/ \E d \in FormCredentials : FormLogin(c, d[1], d[2])
        \/ FormLoginSuccess(c)
        \/ \E f \in RegistroUserForms : RegistroBegin(c, f[1], f[2], f[3])
        \/ RegistroSave(c)
        \/ RegistroLogin(c)
        \/ \E f \in RegistroForms : RegistroEmailBegin(c, f[1], f[2], f[3])
        \/ RegistroEmailSave(c)
        \/ RegistroEmailLogin(c)

SpecSignup == Init /\ [][NextSignup]_vars

\* The second factor: form login and the two 2FA views.
NextSession ==
    \E c \in Clients :
        \/ \E d \in Credentials : FormLogin(c, d[1], d[2])
        \/ FormLoginSuccess(c)
        \/ \E m \in Methods, i \in UserIdArgs, k \in Codes : Comprobarqr(c, m, i, k)
        \/ ComprobarqrVerify(c)
        \/ \E m \in Methods, i \in UserIdArgs, x \in Secrets :
               Dobleautenticacion(c, m, i, x)
        \/ DobleautenticacionSave(c)

SpecSession == Init /\ [][NextSession]_vars

\* The session views after voter1 enrolled a second factor and login2 then
\* blocked the account. A client logged in as voter1 may have a
\* dobleautenticacion in flight that loaded voter1's row before the block.
InitLocked ==
    /\ \E secreto \in Secrets :
          users = [FixtureUsers EXCEPT ![1].is_blocked = TRUE, ![1].secret = secreto]
    /\ tokens = {}
    /\ nextKey = 1
    /\ user_failed_login_attempts = AUTH_MAX_FAILED_LOGIN_ATTEMPTS
    /\ \E enrolling \in SUBSET Clients :
          /\ Cardinality(enrolling) <= 1
          /\ session = [c \in Clients |-> IF c \in enrolling THEN 1 ELSE 0]
          /\ \E secreto \in Secrets :
                inflight = [c \in Clients |->
                    IF c \in enrolling
                    THEN [Request("dobleautenticacion", "", "", 1) EXCEPT
                             !.row = [FixtureUsers[1] EXCEPT !.secret = secreto]]
                    ELSE Idle]
    /\ resp = NoResp
    /\ streak = [u \in LoginNames |-> 0]
    /\ attempts = 0

SpecLocked == InitLocked /\ [][NextSession]_vars

\* The two 2FA views alone, with no password login in the run: voter1 has
\* enrolled a second factor in an earlier session that has ended, and no
\* login has been answered with the redirect to comprobarqr.
InitEnrolled ==
    /\ \E secreto \in Secrets :
          users = [FixtureUsers EXCEPT ![1].secret = secreto]
    /\ tokens = {}
    /\ nextKey = 1
    /\ user_failed_login_attempts = 0
    /\ session = [c \in Clients |-> 0]
    /\ inflight = [c \in Clients |-> Idle]
    /\ resp = NoResp
    /\ streak = [u \in LoginNames |-> 0]
    /\ attempts = 0

NextVerify ==
    \E c \in Clients :
        \/ \E m \in Methods, i \in UserIdArgs, k \in Codes : Comprobarqr(c, m, i, k)
        \/ ComprobarqrVerify(c)
        \/ \E m \in Methods, i \in UserIdArgs, x \in Secrets :
               Dobleautenticacion(c, m, i, x)
        \/ DobleautenticacionSave(c)

SpecNoLogin == InitEnrolled /\ [][NextVerify]_vars

\* The two 2FA views after exactly one password login of the enrolled
\* voter1: the form login of some client has just been answered with the
\* redirect to comprobarqr, session logged out, and no other login follows.
InitPending ==
    /\ \E secreto \in Secrets :
          users = [FixtureUsers EXCEPT ![1].secret = secreto]
    /\ tokens = {}
    /\ nextKey = 1
    /\ user_failed_login_attempts = 0
    /\ session = [c \in Clients |-> 0]
    /\ inflight = [c \in Clients |-> Idle]
    /\ \E c \in Clients, uid \in ByUsername("voter1") :
          resp = Response(c, "formlogin", get_success_url(uid, users[uid]).outcome,
                          uid, "voter1", 0, 0)
    /\ streak = [u \in LoginNames |-> 0]
    /\ attempts = 0

SpecPending == InitPending /\ [][NextVerify]_vars

\* The view, username and email of a sign-up that has inserted its user and
\* has login() ahead.
SignedUp == {<<"registroLogin", "user9", "">>,
             <<"registroEmailLogin", "new@decide.es", "new@decide.es">>}

\* The session views while a sign-up stands between form.save() and
\* login(): the new user is in the table, the creator's session is still
\* anonymous, and login2 may have blocked the new account already.
InitHandover ==
    /\ \E f \in SignedUp, blk \in BOOLEAN :
          /\ users = Append(FixtureUsers,
                            [NewUser(f[2], "decidepass123", f[3], FALSE) EXCEPT
                                !.is_blocked = blk])
          /\ user_failed_login_attempts =
                IF blk THEN AUTH_MAX_FAILED_LOGIN_ATTEMPTS ELSE 0
          /\ \E c \in Clients :
                inflight = [d \in Clients |->
                    IF d = c
                    THEN Request(f[1], f[2], "decidepass123", Len(FixtureUsers) + 1)
                    ELSE Idle]
    /\ tokens = {}
    /\ nextKey = 1
    /\ session = [c \in Clients |-> 0]
    /\ resp = NoResp
    /\ streak = [u \in LoginNames |-> 0]
    /\ attempts = 0

\* dobleautenticacion is called for the new user.
NextHandover ==
    \E c \in Clients :
        \/ \E d \in FormCredentials : FormLogin(c, d[1], d[2])
        \/ FormLoginSuccess(c)
        \/ \E m \in Methods, i \in UserIdArgs, k \in Codes : Comprobarqr(c, m, i, k)
        \/ ComprobarqrVerify(c)
        \/ \E m \in Methods, x \in Secrets :
               Dobleautenticacion(c, m, Len(FixtureUsers) + 1, x)
        \/ DobleautenticacionSave(c)
        \/ RegistroLogin(c)
        \/ RegistroEmailLogin(c)

SpecHandover == InitHandover /\ [][NextHandover]_vars

\* ---------------------------------------------------------------- properties
\* The step answers a request: no client starts a request or moves on to
\* the next statement of one in flight. resp' is then the answer of that step.
Responds == \A c \in Clients : inflight'[c] = inflight[c] \/ inflight'[c] = Idle

Answers(op) == Responds /\ resp'.op = op

\* C1: the token a login returns for a user without a secret resolves at once,
\* for every caller, to the id and username of the user who logged in, and no
\* step other than a logout of that very token ends this.
C1_LoginThenGetUser ==
    /\ [](resp.op = "login" /\ resp.outcome = "Ok" =>
            /\ users[resp.user].secret = NoSecret
            /\ users[resp.user].username = resp.username
            /\ \A c \in Clients :
                 GetUserOutcome(c, resp.key) =
                    Response(c, "getuser", "Ok", resp.user, resp.username, 0,
                             resp.key))
    /\ [][\A t \in tokens :
            \/ /\ t \in tokens'
               /\ \A c \in Clients :
                    GetUserOutcome(c, t.key)' = GetUserOutcome(c, t.key)
            \/ Answers("logout") /\ resp'.arg = t.key]_vars

\* A getuser with the token of a login by voter1 has answered with voter1.
C1_Witness ==
    /\ resp.op = "getuser" /\ resp.outcome = "Ok"
    /\ resp.user = 1 /\ resp.username = "voter1"
    /\ users[1].secret = NoSecret

\* C2: getuser answers NotFound for every token that is not in the token
\* table; a never-issued key is not in it, a logout takes the key out of it,
\* and a key that was issued and is gone never comes back.
C2_GetUserNotFound ==
    /\ [](/\ resp.op = "getuser" /\ ~HasToken(resp.arg) => resp.outcome = "NotFound"
          /\ \A k \in TokenArgs : k = 0 \/ k >= nextKey => ~HasToken(k))
    /\ [][/\ Answers("logout") => \A t \in tokens' : t.key # resp'.arg
          /\ \A k \in TokenArgs :
                k # 0 /\ k < nextKey /\ ~HasToken(k) =>
                    /\ ~HasToken(k)'
                    /\ \A c \in Clients : GetUserOutcome(c, k)'.outcome = "NotFound"]_vars

\* A getuser with a token that was issued and logged out has answered NotFound.
C2_Witness ==
    /\ resp.op = "getuser" /\ resp.outcome = "NotFound"
    /\ resp.arg # 0 /\ resp.arg < nextKey

\* C3: every logout answers Ok, removes exactly the tokens with the key it was
\* given (so a repeated logout changes nothing) and changes no user.
C3_LogoutIdempotent ==
    [][Answers("logout") =>
          /\ resp'.outcome = "Ok"
          /\ tokens' = {t \in tokens : t.key # resp'.arg}
          /\ {t \in tokens' : t.key # resp'.arg} = tokens'
          /\ users' = users
          /\ session' = session]_vars

\* A logout has removed one token and left another one in the table.
C3_Witness ==
    /\ resp.op = "logout" /\ resp.arg # 0 /\ resp.arg < nextKey
    /\ ~HasToken(resp.arg)
    /\ tokens # {}

\* The account of that username exists and is blocked.
Blocked(username) == \E i \in ByUsername(username) : users[i].is_blocked

\* C4: an account is blocked once AUTH_MAX_FAILED_LOGIN_ATTEMPTS failed
\* logins in a row were made against it, and is blocked by nothing less.
C4_BlockedAtThreshold ==
    /\ [](\A u \in LoginNames :
            ByUsername(u) # {} /\ streak[u] >= AUTH_MAX_FAILED_LOGIN_ATTEMPTS
                => Blocked(u))
    /\ [][\A u \in LoginNames :
            ~Blocked(u) /\ Blocked(u)'
                => streak'[u] >= AUTH_MAX_FAILED_LOGIN_ATTEMPTS]_vars

\* C5: a login with the right credentials leaves the failure counter at zero
\* and the account unblocked.
C5_SuccessResets ==
    resp.op = "login2" /\ streak[resp.username] = 0 =>
        /\ user_failed_login_attempts = 0
        /\ ~Blocked(resp.username)

\* The token with that key belongs to a user who is not a superuser.
NonSuperuserToken(key) ==
    \E t \in TokenByKey(key) : ~users[t.user].is_superuser

\* C6: a register request whose token belongs to a non-superuser is answered
\* Unauthorized whatever its payload, never gets as far as the insert, and
\* changes neither the users nor the tokens.
C6_NonSuperuserUnauthorized ==
    [][/\ Answers("register") /\ NonSuperuserToken(resp'.arg) =>
            /\ resp'.outcome = "Unauthorized"
            /\ users' = users
            /\ tokens' = tokens
       /\ \A c \in Clients :
            inflight[c] = Idle /\ inflight'[c].op = "register" =>
                ~NonSuperuserToken(inflight'[c].n)]_vars

\* voter1's token was used to register the duplicate payload admin/admin and
\* the answer was Unauthorized.
C6_Witness ==
    /\ resp.op = "register" /\ resp.outcome = "Unauthorized"
    /\ resp.username = "admin"
    /\ NonSuperuserToken(resp.arg)

\* The statements of get_or_create a registration goes through after it has
\* inserted its user.
RegisterTokenOps == {"registerToken", "registerCreate", "registerRetry"}

\* C7: usernames stay unique; a registration that reaches the insert with a
\* username that exists (registered before, or by a concurrent request since
\* the checks) is answered BadRequest and changes no user and no token; and
\* of the registrations of one new username exactly one succeeds: the one
\* whose insert went through is answered Created.
C7_DuplicateBadRequest ==
    /\ [](\A i, j \in UserIds : users[i].username = users[j].username => i = j)
    /\ [][\A c \in Clients :
            /\ /\ inflight[c].op = "register" /\ inflight'[c] = Idle
               /\ ByUsername(inflight[c].a) # {}
               => /\ resp'.op = "register" /\ resp'.client = c
                  /\ resp'.outcome = "BadRequest"
                  /\ users' = users
                  /\ tokens' = tokens
            /\ inflight[c].op \in RegisterTokenOps /\ inflight'[c] = Idle
               => /\ resp'.op = "register" /\ resp'.client = c
                  /\ resp'.outcome = "Created"]_vars

\* C8: a registration with a superuser token and a fresh username and
\* password succeeds: the insert adds exactly one user and the request goes on
\* to the token; it is then answered Created with the new user's pk and that
\* user's token, which is in the table (added by this request unless a login
\* of the new user has made it meanwhile); getuser resolves the token to the
\* new user, and the username now exists, so the same payload is refused
\* from then on.
C8_RegisterCreates ==
    /\ [](resp.op = "register" /\ resp.outcome = "Created" =>
            /\ resp.user \in UserIds /\ resp.key # 0
            /\ users[resp.user].username = resp.username
            /\ ByUsername(resp.username) = {resp.user}
            /\ IntegrityError(resp.username)
            /\ \A c \in Clients :
                 GetUserOutcome(c, resp.key) =
                    Response(c, "getuser", "Ok", resp.user, resp.username, 0,
                             resp.key))
    /\ [][\A c \in Clients :
            /\ /\ inflight[c].op = "register" /\ inflight'[c] # inflight[c]
               /\ ByUsername(inflight[c].a) = {}
               => /\ inflight'[c].op = "registerToken"
                  /\ Len(users') = Len(users) + 1
                  /\ SubSeq(users', 1, Len(users)) = users
                  /\ users'[Len(users')].username = inflight[c].a
                  /\ tokens' = tokens
            /\ inflight[c].op \in RegisterTokenOps /\ inflight'[c] # inflight[c]
               => /\ users' = users
                  /\ tokens \subseteq tokens'
                  /\ Cardinality(tokens') <= Cardinality(tokens) + 1
            /\ inflight[c].op \in RegisterTokenOps /\ inflight'[c] = Idle
               => /\ resp'.op = "register" /\ resp'.client = c
                  /\ resp'.outcome = "Created"
                  /\ ByUsername(inflight[c].a) = {resp'.user}
                  /\ \E t \in tokens' : t.key = resp'.key /\ t.user = resp'.user]_vars

\* C9: registroEmail is all or nothing. A form with an error (bad email, empty
\* or differing confirmation, weak password, email taken) is answered with the
\* form error and goes no further; every answer but the redirect to home
\* leaves users and sessions as they were; the insert adds exactly one user,
\* whose username and email are the posted email, and no session; the
\* redirect to home is the answer of the request that inserted the user and
\* comes with the caller's session, and no other, logged in as that user.
C9_RegistroAllOrNothing ==
    [][/\ \A c \in Clients, f \in RegistroForms :
            /\ RegistroEmailBegin(c, f[1], f[2], f[3])
            /\ FormErrors(f[1], f[2], f[3]) # {}
            => /\ resp'.op = "registroEmail" /\ resp'.outcome = "FormError"
               /\ inflight' = inflight
               /\ users' = users
               /\ session' = session
       /\ Answers("registroEmail") /\ resp'.outcome # "RedirectHome" =>
            /\ users' = users
            /\ session' = session
       /\ \A c \in Clients :
            inflight[c].op = "registroEmail" /\ inflight'[c].op = "registroEmailLogin"
            => /\ ByUsername(inflight[c].a) = {}
               /\ Len(users') = Len(users) + 1
               /\ SubSeq(users', 1, Len(users)) = users
               /\ users'[Len(users')].username = inflight[c].a
               /\ users'[Len(users')].email = inflight[c].a
               /\ inflight'[c].n = Len(users')
               /\ session' = session
       /\ Answers("registroEmail") /\ resp'.outcome = "RedirectHome" =>
            /\ inflight[resp'.client].op = "registroEmailLogin"
            /\ inflight[resp'.client].n = resp'.user
            /\ users' = users
            /\ users[resp'.user].username = resp'.username
            /\ users[resp'.user].email = resp'.username
            /\ session' = [session EXCEPT ![resp'.client] = resp'.user]]_vars

\* The email registration succeeded: the new user exists under the email and
\* the caller's session is that user's.
C9_Witness ==
    /\ resp.op = "registroEmail" /\ resp.outcome = "RedirectHome"
    /\ users[resp.user].username = "new@decide.es"
    /\ session[resp.client] = resp.user

\* C10: a form login with the right password of a user who has a secret is
\* sent to comprobarqr with its session anonymous and no token made; the only
\* step that logs a session in as a user with a secret is a comprobarqr that
\* accepted a code for that user; no step makes a token for such a user.
C10_NoSessionBeforeCode ==
    [][/\ /\ Answers("formlogin") /\ resp'.user # 0
          /\ users[resp'.user].secret # NoSecret
          => /\ resp'.outcome = "RedirectComprobarqr"
             /\ session'[resp'.client] = 0
             /\ tokens' = tokens
       /\ \A c \in Clients :
            /\ session'[c] # session[c] /\ session'[c] # 0
            /\ users'[session'[c]].secret # NoSecret
            => /\ Answers("comprobarqr") /\ resp'.client = c
               /\ resp'.outcome = "RenderHome" /\ resp'.user = session'[c]
       /\ \A t \in tokens' \ tokens : users'[t.user].secret = NoSecret]_vars

\* C11: no step logs a session in as a blocked user, and no step makes a
\* token for a blocked user.
C11_BlockedCannotAuthenticate ==
    [][/\ \A c \in Clients :
            session'[c] # session[c] /\ session'[c] # 0
                => ~users'[session'[c]].is_blocked
       /\ \A t \in tokens' \ tokens : ~users'[t.user].is_blocked]_vars

\* What login2 answers to a wrong password for an existing username once the
\* counter stands at count.
WrongPasswordOutcome(count) ==
    IF count >= AUTH_MAX_FAILED_LOGIN_ATTEMPTS THEN "RedirectRegistro"
    ELSE "RenderLogin"

\* C12: at every value of the counter a failed login2 answers what a wrong
\* password for an existing username gets at that value, whether or not the
\* username exists, and never with an uncaught exception.
C12_FailureHidesExistence ==
    [][(Answers("login2") /\ streak'[resp'.username] > 0)
           => /\ resp'.outcome # "ServerError"
              /\ resp'.outcome = WrongPasswordOutcome(user_failed_login_attempts)]_vars

\* C13: in a run with no password login at all, so that no login was ever
\* answered with the redirect to comprobarqr, no call of comprobarqr logs a
\* user in.
C13_VerifyNeedsPendingLogin ==
    [][Answers("comprobarqr") => resp'.outcome # "RenderHome"]_vars

\* C14: after the one password login of voter1 that was answered with the
\* redirect to comprobarqr, at most one client holds a session logged in as
\* voter1, however many calls of comprobarqr carried a correct code.
C14_OneSessionPerPendingLogin ==
    \A uid \in ByUsername("voter1") :
        Cardinality({c \in Clients : session[c] = uid}) <= 1

\* C15: once every login2 request has completed, if all of them were failed
\* logins against one account, then below the threshold the counter equals
\* their number, and from the threshold on the account is blocked.
C15_NoLostIncrement ==
    \A u \in LoginNames :
        ((\A c \in Clients : inflight[c] = Idle) /\ streak[u] = attempts)
            => /\ attempts < AUTH_MAX_FAILED_LOGIN_ATTEMPTS
                    => user_failed_login_attempts = attempts
               /\ (attempts >= AUTH_MAX_FAILED_LOGIN_ATTEMPTS /\ ByUsername(u) # {})
                    => Blocked(u)

\* C16: the login2 request that blocks an account leaves the counter at
\* zero, so that the next failure starts a fresh run.
C16_BlockResetsCounter ==
    [][(Answers("login2") /\ resp'.outcome = "RedirectRegistro")
           => user_failed_login_attempts' = 0]_vars

\* C17: when every login2 request so far was a failed login against account
\* a or against another account b, and the last one has blocked b, then b
\* has threshold failures in a row of its own: those against a do not count.
C17_PerAccountStreak ==
    \A a \in LoginNames :
        (/\ resp.op = "login2"
         /\ resp.outcome = "RedirectRegistro"
         /\ a # resp.username
         /\ \A c \in Clients : inflight[c] = Idle
         /\ streak[a] > 0
         /\ streak[a] + streak[resp.username] = attempts)
            => streak[resp.username] >= AUTH_MAX_FAILED_LOGIN_ATTEMPTS

\* C18: no step changes the secret of a user who has one stored, a call of
\* dobleautenticacion by that user included (calls by other users are the
\* matter of C19 and are left aside here).
C18_SecretSetOnce ==
    [][\A u \in UserIds :
           (/\ users[u].secret # NoSecret
            /\ Answers("dobleautenticacion") => session[resp'.client] = u)
               => users'[u].secret = users[u].secret]_vars

\* C19: a call of dobleautenticacion leaves the secret of every user other
\* than the logged-in caller as it was.
C19_EnrollOwnRecordOnly ==
    [][Answers("dobleautenticacion")
           => \A u \in UserIds :
                  u # session[resp'.client] => users'[u].secret = users[u].secret]_vars

\* C20: in every state each user owns at most one token; right after a login
\* answered with a token its user owns exactly one, and right after the
\* logout of a token its owner owns none.
C20_OneTokenPerUser ==
    /\ [](\A u \in UserIds : Cardinality(TokenByUser(u)) <= 1)
    /\ [][/\ (Answers("login") /\ resp'.outcome = "Ok")
               => Cardinality({t \in tokens' : t.user = resp'.user}) = 1
          /\ Answers("logout")
               => \A o \in TokenByKey(resp'.arg) :
                      {t \in tokens' : t.user = o.user} = {}]_vars

\* Two logins of one user ran at the same time: one has been answered with
\* the token it created while the other, which had found none, is about to
\* create.
C20_Witness ==
    /\ resp.op = "login"
    /\ resp.outcome = "Ok"
    /\ Cardinality(TokenByUser(resp.user)) = 1
    /\ \E c \in Clients : inflight[c].op = "login" /\ inflight[c].n = resp.user
====
